---- MODULE Spec2Model ----
(***************************************************************************)
(* Digital Modulation Visualizer (src/main.py): a Streamlit script that is *)
(* re-executed from top to bottom on every user interaction.  The model    *)
(* covers the session's page stage, the sidebar widgets, numpy's           *)
(* process-wide random generator and the whole of page_visualizer: bit     *)
(* parsing, time grid, the five modulation loops and the noise step.       *)
(*                                                                         *)
(* Numbers.  Times are exact rationals: t[j] and Tb are numerators over    *)
(* the common denominator bit_rate * (num - 1) of the linspace grid.       *)
(* Angles are whole eighths of a turn (pi = 4), the argument of sin being  *)
(* rounded down to that grid; sin is in thousandths.  Powers are integers  *)
(* (rounded down), sqrt is the integer square root.                        *)
(***************************************************************************)
EXTENDS Integers, Sequences, FiniteSets, TLC

\* ---------------------------------------------------------------- bounds
\* Longest text typed into the "Bit Stream" box.
MaxLen == 2
\* Largest "Samples per bit" (the slider's 50..1000, scaled down to 2..Max).
MaxSamplesPerBit == 3

\* ------------------------------------------------------------- constants
\* from numpy import pi, in eighths of a turn.
pi == 4

\* Python's None; a number v that is present is <<v>>
None == <<>>

Chars == {"0", "1", "x"}
\* The texts entered: every text of up to MaxLen characters, and "101".
BitInputs == (UNION {[1..k -> Chars] : k \in 0..MaxLen}) \cup {<<"1", "0", "1">>}
\* The box's initial text "10110011", cut to the longest text modelled.
DefaultBitInput ==
    SubSeq(<<"1", "0", "1", "1", "0", "0", "1", "1">>, 1,
           IF MaxLen < 8 THEN MaxLen ELSE 8)

ModTypes == {"ASK", "BPSK", "QPSK", "FSK", "DPSK"}
BitRates == {1, 5}
Amplitudes == {1, 3}
CarrierFreqs == {1, 10}
SamplesPerBit == 2..MaxSamplesPerBit
SnrValues == {0, 25}
FreqSeparations == {2, 6}
RngStates == 0..3

VARIABLES
    session_state,  \* st.session_state: a mapping, empty until the first run
    page,           \* the page the last script run rendered
    shown,          \* the pages rendered so far in this session
    rerun,          \* st.rerun() was called: a rerun is queued
    sidebar,        \* the values of the sidebar widgets
    rng,            \* state of numpy's global generator (np.random)
    viz             \* locals of the last page_visualizer execution

vars == <<session_state, page, shown, rerun, sidebar, rng, viz>>

\* ------------------------------------------------------ numeric helpers
RECURSIVE SumSq(_, _)
SumSq(s, k) == IF k = 0 THEN 0 ELSE s[k] * s[k] + SumSq(s, k - 1)

RECURSIVE isqrt_search(_, _, _)
isqrt_search(lo, hi, x) ==
    IF lo >= hi THEN lo
    ELSE LET mid == (lo + hi + 1) \div 2
         IN  IF mid * mid <= x THEN isqrt_search(mid, hi, x)
             ELSE isqrt_search(lo, mid - 1, x)

\* np.sqrt, rounded down
sqrt(x) == isqrt_search(0, IF x < 4000 THEN x ELSE 4000, x)

SinTable == <<0, 707, 1000, 707, 0, -707, -1000, -707>>

\* np.sin of an angle given in eighths of a turn, in thousandths
sin(e) == SinTable[(e % 8) + 1]

\* 10 ** (snr_db / 10), rounded down
pow10(snr_db) ==
    CASE snr_db = 0 -> 1
      [] snr_db = 10 -> 10
      [] snr_db = 20 -> 100
      [] snr_db = 25 -> 316
      [] snr_db = 30 -> 1000
      [] snr_db = 40 -> 10000

\* ------------------------------------------------------------ data prep
\* bits = [b for b in bit_input if b in ("0", "1")]
parse_bits(bit_input) == SelectSeq(bit_input, LAMBDA b : b \in {"0", "1"})

\* mutant: the emptiness test never fires
no_bits_skipped(bits) == Len(bits) < 0

\* if len(bits) == 0: st.error(...); return
no_bits(bits) == Len(bits) = 0

\* Tb = 1 / bit_rate, as a numerator over bit_rate * TbUnits(num)
TbUnits(num) == IF num > 1 THEN num - 1 ELSE 1

\* np.linspace(0, T, num) with T = Tb * nbits: num evenly spaced samples
\* from 0 to T, both ends included.
linspace(nbits, num) == [j \in 1..num |-> (j - 1) * nbits]

\* idx = (t >= lo) & (t < hi)
window(t, lo, hi) == {j \in DOMAIN t : t[j] >= lo /\ t[j] < hi}

\* A * np.sin(2 * pi * f * t[j] + phase), f given in half hertz
wave(P, f2, j, phase) ==
    P.A * sin(((2 * pi * f2 * P.t[j]) \div (2 * P.den)) + phase)

\* signal[idx] = val, and the log of the loop's windows and phases
assign(acc, idx, phase, val) ==
    [acc EXCEPT
        !.signal = [j \in DOMAIN acc.signal |->
                       IF j \in idx THEN val[j] ELSE acc.signal[j]],
        !.idx = Append(@, idx),
        !.phase = Append(@, phase)]

\* signal = np.zeros_like(t); nothing assigned yet
zeros(t) ==
    [signal |-> [j \in DOMAIN t |-> 0], idx |-> <<>>, phase |-> <<>>,
     err |-> "none"]

\* ----------------------------------------------------------- modulation
\* P: the locals the loops read (bits, t, Tb, den, A, fc, f_delta).
\* Loop index i counts windows from 1 (Python's i, or i / 2 for QPSK, + 1).

\* mutant: the carrier is keyed on for both bits
ask_value_always(P, b, j) == wave(P, 2 * P.fc, j, 0)

\* ASK: signal[idx] = A * carrier if b == "1" else 0
ask_value(P, b, j) == IF b = "1" THEN wave(P, 2 * P.fc, j, 0) ELSE 0

RECURSIVE ask(_, _, _)
ask(i, P, acc) ==
    IF i > Len(P.bits) THEN acc
    ELSE LET idx == window(P.t, (i - 1) * P.Tb, i * P.Tb)
             val == [j \in idx |-> ask_value(P, P.bits[i], j)]
         IN  ask(i + 1, P, assign(acc, idx, 0, val))

\* BPSK: phase = 0 if b == "0" else pi
bpsk_phase(b) == IF b = "0" THEN 0 ELSE pi

RECURSIVE bpsk(_, _, _)
bpsk(i, P, acc) ==
    IF i > Len(P.bits) THEN acc
    ELSE LET idx == window(P.t, (i - 1) * P.Tb, i * P.Tb)
             phase == bpsk_phase(P.bits[i])
             val == [j \in idx |-> wave(P, 2 * P.fc, j, phase)]
         IN  bpsk(i + 1, P, assign(acc, idx, phase, val))

\* mutant: no padding
pad_never(bits) == bits

\* QPSK: if len(bits) % 2 != 0: bits.append("0")
pad(bits) == IF Len(bits) % 2 # 0 THEN Append(bits, "0") ELSE bits

\* mapping = {"00": pi/4, "01": 3*pi/4, "11": 5*pi/4, "10": 7*pi/4}
mapping ==
    (<<"0", "0">> :> (pi \div 4)) @@ (<<"0", "1">> :> ((3 * pi) \div 4)) @@
    (<<"1", "1">> :> ((5 * pi) \div 4)) @@ (<<"1", "0">> :> ((7 * pi) \div 4))

\* bits[i:i + 2] for the k-th pair (i = 2 * (k - 1)); the slice is cut short
\* at the end of the list.
pair(bits, k) ==
    SubSeq(bits, 2 * k - 1, IF 2 * k <= Len(bits) THEN 2 * k ELSE Len(bits))

RECURSIVE qpsk(_, _, _)
qpsk(k, P, acc) ==
    IF 2 * k - 1 > Len(P.bits) THEN acc
    ELSE LET idx == window(P.t, (k - 1) * P.Tb, k * P.Tb)
             key == pair(P.bits, k)
         IN  IF key \notin DOMAIN mapping
             THEN [acc EXCEPT !.err = "KeyError", !.idx = Append(@, idx)]
             ELSE LET phase == mapping[key]
                      val == [j \in idx |-> wave(P, 2 * P.fc, j, phase)]
                  IN  qpsk(k + 1, P, assign(acc, idx, phase, val))

\* FSK: f1, f2 = fc - f_delta / 2, fc + f_delta / 2 (in half hertz)
fsk_freq(P, b) ==
    IF b = "0" THEN 2 * P.fc - P.f_delta[1] ELSE 2 * P.fc + P.f_delta[1]

RECURSIVE fsk_loop(_, _, _)
fsk_loop(i, P, acc) ==
    IF i > Len(P.bits) THEN acc
    ELSE LET idx == window(P.t, (i - 1) * P.Tb, i * P.Tb)
             f == fsk_freq(P, P.bits[i])
             val == [j \in idx |-> wave(P, f, j, 0)]
         IN  fsk_loop(i + 1, P, assign(acc, idx, 0, val))

\* f_delta / 2 on None raises TypeError before the loop starts
fsk(P, acc) ==
    IF P.f_delta = None THEN [acc EXCEPT !.err = "TypeError"]
    ELSE fsk_loop(1, P, acc)

\* mutant: the phase toggles on "0" instead of "1"
dpsk_phase_on_zero(prev_phase, b) ==
    IF b = "0" THEN (prev_phase + pi) % (2 * pi) ELSE prev_phase

\* DPSK: if b == "1": prev_phase = (prev_phase + pi) % (2 * pi)
dpsk_phase(prev_phase, b) ==
    IF b = "1" THEN (prev_phase + pi) % (2 * pi) ELSE prev_phase

RECURSIVE dpsk(_, _, _, _)
dpsk(i, P, prev_phase, acc) ==
    IF i > Len(P.bits) THEN acc
    ELSE LET idx == window(P.t, (i - 1) * P.Tb, i * P.Tb)
             phase == dpsk_phase(prev_phase, P.bits[i])
             val == [j \in idx |-> wave(P, 2 * P.fc, j, phase)]
         IN  dpsk(i + 1, P, phase, assign(acc, idx, phase, val))

\* the if / elif chain on mod_type
modulate(mod_type, P) ==
    CASE mod_type = "ASK" -> ask(1, P, zeros(P.t))
      [] mod_type = "BPSK" -> bpsk(1, P, zeros(P.t))
      [] mod_type = "QPSK" -> qpsk(1, P, zeros(P.t))
      [] mod_type = "FSK" -> fsk(P, zeros(P.t))
      [] mod_type = "DPSK" -> dpsk(1, P, 0, zeros(P.t))

\* ---------------------------------------------------------------- noise
\* np.random's generator: one step of the global state per sample drawn
rng_next(g) == (5 * g + 3) % 4

\* the standard-normal sample the generator yields in state g
rng_value(g) == g - 2

\* np.random.randn(n): n samples from the global generator, which advances
RECURSIVE randn(_, _)
randn(n, g) ==
    IF n = 0 THEN [z |-> <<>>, g |-> g]
    ELSE LET r == randn(n - 1, g)
         IN  [z |-> Append(r.z, rng_value(rng_next(r.g))), g |-> rng_next(r.g)]

\* sig_power = np.mean(signal ** 2)  (nan for an empty array: 0 here)
mean_square(signal) ==
    IF Len(signal) = 0 THEN 0 ELSE SumSq(signal, Len(signal)) \div Len(signal)

\* noise_power = sig_power / (10 ** (snr_db / 10))
noise_power_of(sig_power, snr_db) == sig_power \div pow10(snr_db)

\* mutant: the noise is not scaled by the noise power
noise_scale_unit(noise_power) == 1

\* np.sqrt(noise_power), the factor of randn
noise_scale(noise_power) == sqrt(noise_power)

\* noise = np.sqrt(noise_power) * np.random.randn(len(signal))
noise_of(noise_power, z) == [j \in DOMAIN z |-> noise_scale(noise_power) * z[j]]

\* ------------------------------------------------------ page_visualizer
\* mutant: the test on the scheme is inverted
f_delta_of_swapped(mod_type, slider) ==
    IF mod_type # "FSK" THEN <<slider>> ELSE None

\* The sidebar's frequency-separation slider exists for FSK only:
\* if mod_type == "FSK": f_delta = st.sidebar.slider(...) else: f_delta = None
f_delta_of(mod_type, slider) == IF mod_type = "FSK" THEN <<slider>> ELSE None

NoViz ==
    [outcome |-> "none", steps |-> {}, mod_type |-> "", bits |-> <<>>,
     f_delta |-> None, Tb |-> 0, T |-> 0, den |-> 0, t |-> <<>>,
     signal |-> <<>>, idx |-> <<>>, phase |-> <<>>, sig_power |-> 0,
     noise_power |-> 0, noise |-> <<>>, rx |-> <<>>, rng |-> 0]

\* One execution of page_visualizer with the sidebar values sb and the
\* generator in state g.  outcome: "error" (st.error and return), "ok" (both
\* traces plotted) or the exception that ended the run.  steps: the stages
\* of the function that were entered.
page_visualizer(sb, g) ==
    LET f_delta == f_delta_of(sb.mod_type, sb.f_delta)
        bits0 == parse_bits(sb.bit_input)
    IN  IF no_bits(bits0)
        THEN [NoViz EXCEPT !.outcome = "error", !.mod_type = sb.mod_type,
                           !.f_delta = f_delta, !.rng = g]
        ELSE
        LET num == sb.fs * Len(bits0)
            Tb == TbUnits(num)
            t == linspace(Len(bits0), num)
            bits == IF sb.mod_type = "QPSK" THEN pad(bits0) ELSE bits0
            P == [bits |-> bits, t |-> t, Tb |-> Tb,
                  den |-> sb.bit_rate * Tb, A |-> sb.A, fc |-> sb.fc,
                  f_delta |-> f_delta]
            m == modulate(sb.mod_type, P)
            base == [NoViz EXCEPT
                        !.mod_type = sb.mod_type, !.bits = bits,
                        !.f_delta = f_delta, !.Tb = Tb,
                        !.T = Tb * Len(bits0), !.den = P.den, !.t = t,
                        !.signal = m.signal, !.idx = m.idx,
                        !.phase = m.phase,
                        !.steps = {"modulation"} \cup
                                  (IF sb.mod_type = "FSK" THEN {"fsk"} ELSE {})]
        IN  IF m.err # "none"
            THEN [base EXCEPT !.outcome = m.err, !.rng = g]
            ELSE
            LET sig_power == mean_square(m.signal)
                noise_power == noise_power_of(sig_power, sb.snr_db)
                r == randn(Len(m.signal), g)
                noise == noise_of(noise_power, r.z)
            IN  [base EXCEPT
                    !.outcome = "ok", !.steps = @ \cup {"noise"},
                    !.sig_power = sig_power, !.noise_power = noise_power,
                    !.noise = noise,
                    !.rx = [j \in DOMAIN m.signal |-> m.signal[j] + noise[j]],
                    !.rng = r.g]

\* ------------------------------------------------------------ the script
\* if "stage" not in st.session_state: st.session_state.stage = 0
ensure_stage(ss) == IF "stage" \in DOMAIN ss THEN ss ELSE [stage |-> 0]

\* the router at the foot of the script
route(stage) ==
    IF stage = 0 THEN "welcome"
    ELSE IF stage = 1 THEN "constraints"
    ELSE "visualizer"

\* mutant: Start jumps to the visualizer
welcome_stage_skip(start) == IF start THEN 2 ELSE 0

\* page_welcome: if start: st.session_state.stage = 1; st.rerun()
welcome_stage(start) == IF start THEN 1 ELSE 0

\* page_constraints: if proceed: st.session_state.stage = 2; st.rerun()
constraints_stage(proceed) == IF proceed THEN 2 ELSE 1

\* One run of the script from top to bottom: `clicked` is the value the
\* rendered page's button returns, sb the sidebar values of this run.
RunScript(clicked, sb) ==
    LET ss == ensure_stage(session_state)
        p == route(ss.stage)
    IN  /\ page' = p
        /\ shown' = shown \cup {p}
        /\ sidebar' = sb
        /\ IF p = "welcome"
           THEN /\ session_state' = [ss EXCEPT !.stage = welcome_stage(clicked)]
                /\ rerun' = clicked
                /\ UNCHANGED <<rng, viz>>
           ELSE IF p = "constraints"
           THEN /\ session_state' = [ss EXCEPT !.stage = constraints_stage(clicked)]
                /\ rerun' = clicked
                /\ UNCHANGED <<rng, viz>>
           ELSE /\ session_state' = ss
                /\ rerun' = FALSE
                /\ viz' = page_visualizer(sb, rng)
                /\ rng' = viz'.rng

\* -------------------------------------------------------------- actions
DefaultSidebar ==
    [mod_type |-> "ASK", bit_input |-> DefaultBitInput, bit_rate |-> 5,
     A |-> 3, fc |-> 10, fs |-> 2, snr_db |-> 25, f_delta |-> 6]

Init ==
    /\ session_state = [k \in {} |-> 0]
    /\ page = "none"
    /\ shown = {}
    /\ rerun = FALSE
    /\ sidebar = DefaultSidebar
    /\ rng \in RngStates
    /\ viz = NoViz

\* The script runs with no widget touched: the first load of the session,
\* the rerun queued by st.rerun(), or the user's "Rerun".
Rerun == RunScript(FALSE, sidebar)

\* "Start Digital Modulation Visualizer" on the welcome page
ClickStart ==
    /\ page = "welcome" /\ ~rerun
    /\ RunScript(TRUE, sidebar)

\* "Proceed to Visualizer" on the constraints page
ClickProceed ==
    /\ page = "constraints" /\ ~rerun
    /\ RunScript(TRUE, sidebar)

\* A sidebar widget of the visualizer page gets a new value; the script
\* reruns with it.  The frequency-separation slider is back at its default
\* whenever FSK is selected anew.
Editable == page = "visualizer" /\ ~rerun

SelectModType ==
    /\ Editable
    /\ \E m \in ModTypes \ {sidebar.mod_type} :
          RunScript(FALSE, [sidebar EXCEPT !.mod_type = m,
                                           !.f_delta = DefaultSidebar.f_delta])

\* The "Bit Stream" box is edited: a character typed at the end, the last
\* one deleted, or the box cleared.
Keystroke(old, new) ==
    \/ new = <<>>
    \/ \E c \in Chars : new = Append(old, c)
    \/ Len(old) > 0 /\ new = SubSeq(old, 1, Len(old) - 1)

EnterBitStream ==
    /\ Editable
    /\ \E s \in BitInputs \ {sidebar.bit_input} :
          /\ Keystroke(sidebar.bit_input, s)
          /\ RunScript(FALSE, [sidebar EXCEPT !.bit_input = s])

SlideBitRate ==
    /\ Editable
    /\ \E v \in BitRates \ {sidebar.bit_rate} :
          RunScript(FALSE, [sidebar EXCEPT !.bit_rate = v])

SlideAmplitude ==
    /\ Editable
    /\ \E v \in Amplitudes \ {sidebar.A} :
          RunScript(FALSE, [sidebar EXCEPT !.A = v])

SlideCarrier ==
    /\ Editable
    /\ \E v \in CarrierFreqs \ {sidebar.fc} :
          RunScript(FALSE, [sidebar EXCEPT !.fc = v])

SlideSamples ==
    /\ Editable
    /\ \E v \in SamplesPerBit \ {sidebar.fs} :
          RunScript(FALSE, [sidebar EXCEPT !.fs = v])

SlideSnr ==
    /\ Editable
    /\ \E v \in SnrValues \ {sidebar.snr_db} :
          RunScript(FALSE, [sidebar EXCEPT !.snr_db = v])

SlideFreqSeparation ==
    /\ Editable /\ sidebar.mod_type = "FSK"
    /\ \E v \in FreqSeparations \ {sidebar.f_delta} :
          RunScript(FALSE, [sidebar EXCEPT !.f_delta = v])

Next ==
    \/ Rerun
    \/ ClickStart
    \/ ClickProceed
    \/ SelectModType
    \/ EnterBitStream
    \/ SlideBitRate
    \/ SlideAmplitude
    \/ SlideCarrier
    \/ SlideSamples
    \/ SlideSnr
    \/ SlideFreqSeparation

Spec == Init /\ [][Next]_vars

\* ------------------------------------------------------------ properties
\* What the last run of page_visualizer read and left behind.
Synthesized == viz.outcome = "ok"
Bits == viz.bits
ParsedLen == Len(SelectSeq(sidebar.bit_input, LAMBDA c : c = "0" \/ c = "1"))

\* the samples whose timestamp lies in [(k - 1) * Tb, k * Tb)
InWindow(k) ==
    {j \in DOMAIN viz.t : (k - 1) * viz.Tb <= viz.t[j] /\ viz.t[j] < k * viz.Tb}

\* A * sin(2 pi f tau + phi) at sample j, f in hertz, phi in eighths of a turn
Carrier(f, j, phi) ==
    sidebar.A * SinTable[((((8 * f * viz.t[j]) \div viz.den) + phi) % 8) + 1]

\* C1: for every non-empty bit stream and every scheme, the transmitted
\* waveform and the time grid have exactly samplesPerBit * effectiveBitCount
\* samples, the effective count being the one after QPSK's padding.
C1_WaveformLength ==
    Synthesized =>
        /\ Len(viz.signal) = sidebar.fs * Len(Bits)
        /\ Len(viz.t) = sidebar.fs * Len(Bits)

\* C2: an input without any '0' or '1' ends the call in the error outcome
\* with no waveform; the modulation and noise steps are not reached.
C2_NoBitsNoWaveform ==
    (/\ viz.outcome # "none"
     /\ \A i \in DOMAIN sidebar.bit_input : sidebar.bit_input[i] \notin {"0", "1"})
    => /\ viz.outcome = "error"
       /\ viz.signal = <<>> /\ viz.rx = <<>> /\ viz.t = <<>>
       /\ viz.steps \cap {"modulation", "fsk", "noise"} = {}

C2_Witness ==
    /\ viz.outcome = "error"
    /\ Len(sidebar.bit_input) = 2
    /\ page = "visualizer"

\* number of '1' among the first k bits
RECURSIVE Ones(_, _)
Ones(b, k) == IF k = 0 THEN 0 ELSE (IF b[k] = "1" THEN 1 ELSE 0) + Ones(b, k - 1)

\* C3: DPSK carries the phase through the windows in order, from 0: window
\* k keeps the previous phase on '0' and adds pi (mod 2 pi) on '1'; the
\* phase is 0 or pi, namely pi times the parity of the '1's so far, and it
\* is the phase of the window's samples; "101" gives [pi, pi, 0].
C3_DpskPhase ==
    (Synthesized /\ viz.mod_type = "DPSK") =>
        /\ Len(viz.phase) = Len(Bits)
        /\ \A k \in DOMAIN Bits :
              LET before == IF k = 1 THEN 0 ELSE viz.phase[k - 1]
              IN  /\ viz.phase[k] =
                        IF Bits[k] = "0" THEN before ELSE (before + 4) % 8
                  /\ viz.phase[k] = 4 * (Ones(Bits, k) % 2)
                  /\ \A j \in InWindow(k) :
                        viz.signal[j] = Carrier(sidebar.fc, j, viz.phase[k])
        /\ (Bits = <<"1", "0", "1">> => viz.phase = <<4, 4, 0>>)

C3_Witness ==
    /\ Synthesized /\ viz.mod_type = "DPSK"
    /\ Bits = <<"1", "0", "1">>
    /\ \E j \in InWindow(3) : viz.signal[j] # 0

\* the literal table 00 -> pi/4, 01 -> 3pi/4, 11 -> 5pi/4, 10 -> 7pi/4
QpskTable(b1, b2) ==
    CASE b1 = "0" /\ b2 = "0" -> 1
      [] b1 = "0" /\ b2 = "1" -> 3
      [] b1 = "1" /\ b2 = "1" -> 5
      [] b1 = "1" /\ b2 = "0" -> 7

\* C4: QPSK pads an odd stream with one trailing '0', pairs bits 2k and
\* 2k + 1 as the symbol of window k, and gives each pair the phase of the
\* literal table; the lookup never fails.
C4_QpskPairs ==
    (viz.mod_type = "QPSK" /\ viz.outcome \notin {"none", "error"}) =>
        LET parsed == SelectSeq(sidebar.bit_input, LAMBDA c : c = "0" \/ c = "1")
        IN  /\ viz.outcome = "ok"
            /\ Bits = IF Len(parsed) % 2 = 1 THEN parsed \o <<"0">> ELSE parsed
            /\ Len(viz.phase) * 2 = Len(Bits)
            /\ \A k \in DOMAIN viz.phase :
                  /\ viz.phase[k] = QpskTable(Bits[2 * k - 1], Bits[2 * k])
                  /\ viz.idx[k] = InWindow(k)
                  /\ \A j \in InWindow(k) :
                        viz.signal[j] = Carrier(sidebar.fc, j, viz.phase[k])

C4_Witness ==
    /\ Synthesized /\ viz.mod_type = "QPSK"
    /\ ParsedLen = 3 /\ Len(Bits) = 4
    /\ viz.phase = <<7, 7>>

\* C5: a transmitted waveform of zero power (every sample 0) has noise
\* power 0 and the received waveform equals it sample for sample, for every
\* snrDb and every draw of the generator.
C5_ZeroPowerNoNoise ==
    (Synthesized /\ \A j \in DOMAIN viz.signal : viz.signal[j] = 0) =>
        /\ viz.sig_power = 0
        /\ viz.noise_power = 0
        /\ viz.rx = viz.signal

C5_Witness ==
    /\ Synthesized /\ viz.mod_type = "ASK"
    /\ Bits = <<"0", "0">>
    /\ sidebar.snr_db = 0
    /\ viz.rx = <<0, 0, 0, 0>>

\* C6: two invocations with the same bit stream and parameters produce
\* identical received waveforms; the noise of one does not depend on state
\* an earlier invocation left behind.
C6_SameInputsSameReceived ==
    [][(Synthesized /\ viz'.outcome = "ok" /\ sidebar' = sidebar)
          => viz'.rx = viz.rx]_vars

\* C7: in ASK every sample in the window of a '0' bit is exactly 0 and
\* every sample in the window of a '1' bit is A sin(2 pi fc tau).
C7_AskWindows ==
    (Synthesized /\ viz.mod_type = "ASK") =>
        \A k \in DOMAIN Bits : \A j \in InWindow(k) :
            viz.signal[j] = IF Bits[k] = "1" THEN Carrier(sidebar.fc, j, 0) ELSE 0

C7_Witness ==
    /\ Synthesized /\ viz.mod_type = "ASK"
    /\ Bits = <<"1", "0">>
    /\ \E j \in InWindow(1) : viz.signal[j] # 0
    /\ \E j \in InWindow(2) : Carrier(sidebar.fc, j, 0) # 0

\* C8: the FSK modulation step is never executed with an undefined
\* frequency separation (FSK without one never gets as far as a waveform).
C8_FskHasSeparation ==
    /\ "fsk" \in viz.steps => viz.f_delta # None /\ viz.outcome # "TypeError"
    /\ (viz.mod_type = "FSK" /\ viz.f_delta = None) =>
           viz.signal = <<>> /\ viz.rx = <<>>

C8_Witness ==
    /\ Synthesized /\ "fsk" \in viz.steps
    /\ viz.f_delta = <<2>>
    /\ \E j \in DOMAIN viz.signal : viz.signal[j] # 0

\* C9: the symbol windows partition the time grid: every timestamp lies in
\* [0, totalDuration) and every sample index falls in exactly one window.
C9_WindowsPartition ==
    Synthesized =>
        \A j \in DOMAIN viz.t :
            /\ 0 <= viz.t[j] /\ viz.t[j] < viz.T
            /\ Cardinality({k \in DOMAIN viz.idx : j \in viz.idx[k]}) = 1

\* C10: the stage starts at 0, takes only the values 0, 1 and 2, never
\* decreases, and changes only 0 -> 1 by Start on the welcome page and
\* 1 -> 2 by Proceed on the constraints page; the visualizer page and any
\* synthesis run only at stage 2, after both other pages were shown.
HasStage(ss) == "stage" \in DOMAIN ss

StageInRange ==
    HasStage(session_state) =>
        /\ session_state.stage \in {0, 1, 2}
        /\ (page = "visualizer" \/ viz.outcome # "none") =>
              /\ session_state.stage = 2
              /\ {"welcome", "constraints"} \subseteq shown

StageStep ==
    /\ HasStage(session_state) => HasStage(session_state')
    /\ ~HasStage(session_state) /\ HasStage(session_state') =>
          session_state'.stage = 0 /\ page' = "welcome"
    /\ HasStage(session_state) /\ session_state'.stage # session_state.stage =>
          \/ /\ session_state.stage = 0 /\ session_state'.stage = 1
             /\ page = "welcome" /\ page' = "welcome" /\ rerun'
          \/ /\ session_state.stage = 1 /\ session_state'.stage = 2
             /\ page = "constraints" /\ page' = "constraints" /\ rerun'

C10_StageMachine == [](~HasStage(session_state) => viz.outcome = "none" /\ page = "none")
                    /\ []StageInRange /\ [][StageStep]_vars

C10_Witness ==
    /\ page = "visualizer" /\ Synthesized
    /\ session_state.stage = 2
    /\ shown = {"welcome", "constraints", "visualizer"}
====
